---- MODULE Spec2Model ----
(***************************************************************************)
(* Model of the OpenRouter client documented in                            *)
(* src/ai_docs/openrouter-setup.md (openrouter.ts): the model registry,    *)
(* _buildRoutingOptions, makeOpenrouterCall, _callInStructuredOutputMode,   *)
(* _callInJSONMode and makeLLMCall.                                        *)
(*                                                                         *)
(* Conventions.  A JavaScript optional value is a sequence of length at    *)
(* most one: None is undefined (an omitted argument or object key) and     *)
(* Some(v) is the value v.  A text is a sequence of tokens (see Tokens).   *)
(* A thrown Error is a record [kind, message]; the kind names the throw    *)
(* site, the message is what the Error carries.                            *)
(***************************************************************************)
EXTENDS Integers, Sequences, FiniteSets, TLC

None == <<>>
Some(x) == <<x>>
Get(o) == o[1]

\* JavaScript's a ?? b: b only when a is undefined.
Coalesce(a, b) == IF a # None THEN a ELSE b

(***************************************************************************)
(* Bounds of the model.                                                    *)
(***************************************************************************)
\* Longest backupModels list in BackupLists.
MaxBackups == 2

\* Longest response text, in tokens, that the cleaning is run on.
MaxTextLen == 6

(***************************************************************************)
(* Texts.  The tokens are the pieces the code's regular expressions and    *)
(* JSON.parse tell apart: a three-backtick fence, the word json, a        *)
(* newline, a space, three JSON documents and a piece of prose.            *)
(***************************************************************************)
FENCE == "<fence>"
JSONWORD == "json"
NL == "\n"
SP == " "
DocA == "{\"a\":1}"
DocAX == "{\"a\":1,\"x\":0}"
DocB == "{\"b\":2}"
PROSE == "Sure!"

Docs == {DocA, DocAX, DocB}
Whitespace == {NL, SP}
Tokens == {FENCE, JSONWORD, NL, SP, PROSE} \cup Docs

RECURSIVE TrimStart(_)
TrimStart(s) ==
  IF s # <<>> /\ Head(s) \in Whitespace THEN TrimStart(Tail(s)) ELSE s

RECURSIVE TrimEnd(_)
TrimEnd(s) ==
  IF s # <<>> /\ s[Len(s)] \in Whitespace
  THEN TrimEnd(SubSeq(s, 1, Len(s) - 1))
  ELSE s

\* String.prototype.trim
Trim(s) == TrimEnd(TrimStart(s))

\* rawContentString.replace(/^<fence>json\n?/, "")
StripLeadingFence(s) ==
  IF Len(s) >= 2 /\ s[1] = FENCE /\ s[2] = JSONWORD
  THEN IF Len(s) >= 3 /\ s[3] = NL
       THEN SubSeq(s, 4, Len(s))
       ELSE SubSeq(s, 3, Len(s))
  ELSE s

\* .replace(/\n?<fence>$/, "")
StripTrailingFence(s) ==
  IF Len(s) >= 1 /\ s[Len(s)] = FENCE
  THEN IF Len(s) >= 2 /\ s[Len(s) - 1] = NL
       THEN SubSeq(s, 1, Len(s) - 2)
       ELSE SubSeq(s, 1, Len(s) - 1)
  ELSE s

\* Mutant: the text is trimmed before the fences are removed, not after.
CleanContent_TrimFirst(raw) == StripTrailingFence(StripLeadingFence(Trim(raw)))

\* The cleaning of a JSON-mode response.
CleanContent(raw) == Trim(StripTrailingFence(StripLeadingFence(raw)))

\* JSON.parse: a text is a JSON text exactly when it is one document with
\* optional whitespace around it; the value is then that document's value.
JsonParses(s) == Len(Trim(s)) = 1 /\ Trim(s)[1] \in Docs
JsonValue(s) == Trim(s)[1]

(***************************************************************************)
(* Zod schemas.  Both describe an object {a: number}: the strict one       *)
(* rejects unknown keys, the plain one strips them from the data.          *)
(***************************************************************************)
StrictA == "z.object({a}).strict()"
PlainA == "z.object({a})"
Schemas == {StrictA, PlainA}

\* schema.safeParse(value).success
SafeParseSuccess(schema, value) ==
  IF schema = StrictA THEN value = DocA ELSE value \in {DocA, DocAX}

\* schema.safeParse(value).data, when it succeeds
SafeParseData(schema, value) == DocA

\* zodToJsonSchema(schema, options): the JSON-Schema document of a schema
\* under a removeAdditionalStrategy (the library's default when none given).
\* The library function is taken to return a document for every schema.
ZodToJsonSchema(schema, strategy) == [of |-> schema, strategy |-> strategy]

(***************************************************************************)
(* ModelInfo, RoutingOptions and the Models registry.                      *)
(***************************************************************************)
RoutingOptions(sort, order, ignore) ==
  [providerSort |-> sort, providerOrder |-> order, ignoredProviders |-> ignore]

ModelInfo(id, supports, defaults) ==
  [id |-> id, supportsStructuredOutput |-> supports,
   defaultRoutingOptions |-> defaults]

\* The registry entries the model draws callers' models from.
Models ==
  [GPT4o |-> ModelInfo("openai/chatgpt-4o-latest", TRUE, None),
   GPT35Turbo |-> ModelInfo("openai/gpt-3.5-turbo-0125", FALSE, None),
   DeepseekR1 |->
     ModelInfo("deepseek/deepseek-r1", TRUE,
               Some(RoutingOptions(Some("price"), None,
                                   Some(<<"InferenceNet">>))))]

ModelPool == {Models[k] : k \in DOMAIN Models}

\* Mutant: the model's default is taken before the caller's override.
FinalOption_DefaultFirst(overrideOptions, primaryModel, field) ==
  Coalesce(IF primaryModel.defaultRoutingOptions = None THEN None
           ELSE Get(primaryModel.defaultRoutingOptions)[field],
           IF overrideOptions = None THEN None
           ELSE Get(overrideOptions)[field])

\* overrideOptions?.field ?? primaryModel.defaultRoutingOptions?.field
FinalOption(overrideOptions, primaryModel, field) ==
  Coalesce(IF overrideOptions = None THEN None
           ELSE Get(overrideOptions)[field],
           IF primaryModel.defaultRoutingOptions = None THEN None
           ELSE Get(primaryModel.defaultRoutingOptions)[field])

\* if (finalOrder && finalOrder.length > 0): the key is set only then.
NonEmptyList(final) == IF final # None /\ Len(Get(final)) > 0 THEN final ELSE None

\* Mutant: the ids are listed from the last backup to the first.
FallbackModelIds_Reversed(backupModels) ==
  [i \in 1..Len(backupModels) |-> backupModels[Len(backupModels) + 1 - i].id]

\* backupModels.map(model => model.id), or [] when there are none
FallbackModelIds(backupModels) ==
  [i \in 1..Len(backupModels) |-> backupModels[i].id]

\* _buildRoutingOptions.  A key of providerPrefs that the code leaves unset
\* is None here.
BuildRoutingOptions(primaryModel, backupModels, overrideOptions) ==
  [provider |->
     [require_parameters |-> TRUE,
      sort |-> FinalOption(overrideOptions, primaryModel, "providerSort"),
      order |-> NonEmptyList(
                  FinalOption(overrideOptions, primaryModel, "providerOrder")),
      ignore |-> NonEmptyList(
                   FinalOption(overrideOptions, primaryModel,
                               "ignoredProviders"))],
   models |-> FallbackModelIds(backupModels)]

(***************************************************************************)
(* Thrown errors.                                                          *)
(***************************************************************************)
Err(kind, message) == [kind |-> kind, message |-> message]

ConfigurationError ==
  Err("ConfigurationError",
      <<"OPENROUTER_API_KEY is not set in environment variables">>)
EmptyCompletion ==
  Err("EmptyCompletion",
      <<"OpenRouter response was successful (200 OK) but contained no valid choices or content.">>)
\* The message interpolates errorCode and errorMessage.
RemoteApiError(code, message) ==
  Err("RemoteApiError", <<"OpenRouter API request failed", code, message>>)
UnknownCallError ==
  Err("TransportError",
      <<"An unknown error occurred during the OpenRouter API call process.">>)
StructuredParseError ==
  Err("MalformedJson",
      <<"Failed to parse structured output from LLM response.">>)
ZodValidationError ==
  Err("SchemaViolation", <<"LLM response failed Zod validation">>)
JsonParseError ==
  Err("MalformedJson",
      <<"Failed to parse JSON output from LLM response even after cleaning.">>)

(***************************************************************************)
(* HTTP.  What fetch does with one request:                                *)
(*   fetch    "resolves", "throwsError" (rejects with an Error carrying    *)
(*            thrown) or "throwsOther" (rejects with a value that is no    *)
(*            Error);                                                      *)
(*   ok, status, statusText   of the Response;                             *)
(*   body     "json" (response.json() yields data), "text" (it throws and  *)
(*            response.text() yields a text) or "unreadable" (both throw); *)
(*   data     the decoded body: choices is None or a list of choices, each *)
(*            with message None or Some([content |-> text]); error is None *)
(*            or Some([code, message]), each None or Some(string).         *)
(* A code or message is falsy when it is missing, "" or the number 0       *)
(* (written "0").                                                          *)
(***************************************************************************)
Body(choices, error) == [choices |-> choices, error |-> error]

HttpResponse(fetch, ok, status, statusText, body, data, thrown) ==
  [fetch |-> fetch, ok |-> ok, status |-> status, statusText |-> statusText,
   body |-> body, data |-> data, thrown |-> thrown]

Falsy(o) == o = None \/ Get(o) \in {"", "0"}

\* Mutant: a ?? b, which falls back only when the value is missing.
OrElse_Nullish(o, b) == IF o = None THEN b ELSE Get(o)

\* a || b
OrElse(o, b) == IF Falsy(o) THEN b ELSE Get(o)

\* Mutant: a first choice whose content is the empty string counts as
\* content.
NoContent_IgnoresEmptyContent(data) ==
  \/ data.choices = None
  \/ Len(Get(data.choices)) = 0
  \/ Get(data.choices)[1].message = None

\* !data.choices || data.choices.length === 0 || !data.choices[0].message?.content
NoContent(data) ==
  \/ data.choices = None
  \/ Len(Get(data.choices)) = 0
  \/ Get(data.choices)[1].message = None
  \/ Get(Get(data.choices)[1].message).content = <<>>

FirstContent(data) == Get(Get(data.choices)[1].message).content

Returned(content) == [ok |-> TRUE, content |-> content, error |-> Err("", <<>>)]
Thrown(error) == [ok |-> FALSE, content |-> <<>>, error |-> error]

\* What response.json() gives: "json" is a decoded object (resp.data),
\* "null" the JSON value null, "text" a body that is not JSON and
\* "unreadable" a body that cannot be read at all.
Decodes(resp) == resp.body \in {"json", "null"}

\* Mutant: the outer catch wraps whatever was thrown in the generic Error.
HandleResponse_WrapsEveryThrow(resp) ==
  IF resp.fetch # "resolves" THEN Thrown(UnknownCallError)
  ELSE IF resp.ok THEN
    IF ~Decodes(resp)
    THEN Thrown(Err("SyntaxError", <<"Unexpected token in JSON">>))
    ELSE IF resp.body = "null"
    THEN Thrown(Err("TypeError", <<"Cannot read properties of null">>))
    ELSE IF NoContent(resp.data) THEN Thrown(EmptyCompletion)
    ELSE Returned(FirstContent(resp.data))
  ELSE IF resp.body = "json" /\ resp.data.error # None
  THEN Thrown(RemoteApiError(
                OrElse(Get(resp.data.error).code, resp.status),
                OrElse(Get(resp.data.error).message, resp.statusText)))
  ELSE Thrown(RemoteApiError(resp.status, resp.statusText))

\* Mutant: the error body is decoded without the inner try/catch, so a body
\* that is not JSON makes response.json() reject out of the function.
HandleResponse_NoInnerCatch(resp) ==
  IF resp.fetch = "throwsError" THEN Thrown(Err("TransportError", resp.thrown))
  ELSE IF resp.fetch = "throwsOther" THEN Thrown(UnknownCallError)
  ELSE IF resp.ok THEN
    IF ~Decodes(resp)
    THEN Thrown(Err("SyntaxError", <<"Unexpected token in JSON">>))
    ELSE IF resp.body = "null"
    THEN Thrown(Err("TypeError", <<"Cannot read properties of null">>))
    ELSE IF NoContent(resp.data) THEN Thrown(EmptyCompletion)
    ELSE Returned(FirstContent(resp.data))
  ELSE IF ~Decodes(resp)
  THEN Thrown(Err("SyntaxError", <<"Unexpected token in JSON">>))
  ELSE IF resp.body = "json" /\ resp.data.error # None
  THEN Thrown(RemoteApiError(
                OrElse(Get(resp.data.error).code, resp.status),
                OrElse(Get(resp.data.error).message, resp.statusText)))
  ELSE Thrown(RemoteApiError(resp.status, resp.statusText))

\* The body of makeOpenrouterCall after the key check: the outcome of the
\* call given what the network did.
HandleResponse(resp) ==
  IF resp.fetch = "throwsError" THEN Thrown(Err("TransportError", resp.thrown))
  ELSE IF resp.fetch = "throwsOther" THEN Thrown(UnknownCallError)
  ELSE IF resp.ok THEN
    IF ~Decodes(resp)
    THEN Thrown(Err("SyntaxError", <<"Unexpected token in JSON">>))
    ELSE IF resp.body = "null"
    THEN Thrown(Err("TypeError", <<"Cannot read properties of null">>))
    ELSE IF NoContent(resp.data) THEN Thrown(EmptyCompletion)
    ELSE Returned(FirstContent(resp.data))
  ELSE IF resp.body = "json" /\ resp.data.error # None
  THEN Thrown(RemoteApiError(
                OrElse(Get(resp.data.error).code, resp.status),
                OrElse(Get(resp.data.error).message, resp.statusText)))
  ELSE Thrown(RemoteApiError(resp.status, resp.statusText))

\* errorDetails as it stands on line 291 for a non-success response; the
\* code passes it to console.error and to nothing else.
ErrorDetails(resp) ==
  IF resp.body = "json" /\ resp.data.error # None
  THEN <<"{code, message, metadata}">>
  ELSE IF resp.body = "json" THEN <<"<the decoded body>">>
  ELSE IF resp.body = "null" THEN <<"null">>
  ELSE IF resp.body = "text" THEN <<"<the raw text>">>
  ELSE <<"<Could not read error body>">>

\* Mutant: only an undefined key is refused, an empty one is used.
KeyMissing_OnlyUndefined(key) == key = None

\* if (!OPENROUTER_API_KEY)
KeyMissing(key) == key = None \/ Get(key) = ""

(***************************************************************************)
(* Requests built by the two call helpers.                                 *)
(***************************************************************************)
DefaultStructuredSystemPrompt ==
  "You are a helpful AI assistant designed to output structured data according to the provided schema."
DefaultJsonSystemPrompt ==
  "You are an AI assistant. Your task is to respond STRICTLY with valid JSON format."

\* A user prompt: the caller's text and, in JSON mode, the appended hint.
UserPrompt(text, hint) == [text |-> text, hint |-> hint]

Messages(systemPrompt, userPrompt) ==
  <<[role |-> "system", content |-> systemPrompt],
    [role |-> "user", content |-> userPrompt]>>

RequestBody(model, messages, responseFormat, routing) ==
  [model |-> model, messages |-> messages, response_format |-> responseFormat,
   provider |-> routing.provider, models |-> routing.models]

\* Mutant: the json_schema object is sent without the strict flag set.
StructuredRequestBody_NotStrict(systemPrompt, userPrompt, primaryModel, backupModels, schema, schemaName, routingOptions) ==
  RequestBody(primaryModel.id,
              Messages(systemPrompt, UserPrompt(userPrompt, None)),
              [type |-> "json_schema",
               json_schema |->
                 Some([name |-> schemaName, strict |-> FALSE,
                       schema |-> ZodToJsonSchema(schema, "default")])],
              BuildRoutingOptions(primaryModel, backupModels, routingOptions))

\* The requestBody of _callInStructuredOutputMode.
StructuredRequestBody(systemPrompt, userPrompt, primaryModel, backupModels, schema, schemaName, routingOptions) ==
  RequestBody(primaryModel.id,
              Messages(systemPrompt, UserPrompt(userPrompt, None)),
              [type |-> "json_schema",
               json_schema |->
                 Some([name |-> schemaName, strict |-> TRUE,
                       schema |-> ZodToJsonSchema(schema, "default")])],
              BuildRoutingOptions(primaryModel, backupModels, routingOptions))

\* The requestBody of _callInJSONMode; promptForJsonMode is the user prompt
\* makeLLMCall hands over.
JsonRequestBody(systemPrompt, promptForJsonMode, primaryModel, backupModels, routingOptions) ==
  RequestBody(primaryModel.id,
              Messages(IF systemPrompt = None \/ Get(systemPrompt) = ""
                       THEN DefaultJsonSystemPrompt
                       ELSE Get(systemPrompt),
                       promptForJsonMode),
              [type |-> "json_object", json_schema |-> None],
              BuildRoutingOptions(primaryModel, backupModels, routingOptions))

\* Lines 534-545 of makeLLMCall: the schema, when given, becomes a hint.
PromptForJsonMode(userPrompt, schema) ==
  UserPrompt(userPrompt,
             IF schema = None THEN None
             ELSE Some(ZodToJsonSchema(Get(schema), "strict")))

(***************************************************************************)
(* What the helpers make of the transport's outcome.                       *)
(***************************************************************************)
Value(v) == [ok |-> TRUE, value |-> v, error |-> Err("", <<>>)]
Failure(e) == [ok |-> FALSE, value |-> "", error |-> e]

\* Mutant: the parsed content is returned without schema.safeParse.
StructuredResult_Unvalidated(schema, out) ==
  IF ~out.ok THEN Failure(out.error)
  ELSE IF ~JsonParses(out.content) THEN Failure(StructuredParseError)
  ELSE Value(JsonValue(out.content))

\* _callInStructuredOutputMode after makeOpenrouterCall: JSON.parse, then
\* schema.safeParse; every error is re-thrown.
StructuredResult(schema, out) ==
  IF ~out.ok THEN Failure(out.error)
  ELSE IF ~JsonParses(out.content) THEN Failure(StructuredParseError)
  ELSE IF ~SafeParseSuccess(schema, JsonValue(out.content))
  THEN Failure(ZodValidationError)
  ELSE Value(SafeParseData(schema, JsonValue(out.content)))

\* _callInJSONMode after makeOpenrouterCall: clean, then JSON.parse.
JsonModeResult(out) ==
  IF ~out.ok THEN Failure(out.error)
  ELSE IF ~JsonParses(CleanContent(out.content)) THEN Failure(JsonParseError)
  ELSE Value(JsonValue(CleanContent(out.content)))

(***************************************************************************)
(* makeLLMCall's decisions.                                                *)
(***************************************************************************)
\* Mutant: the forceJsonMode flag is not consulted.
UseStructuredOutput_IgnoresForce(primaryModel, schema, forceJsonMode) ==
  primaryModel.supportsStructuredOutput /\ schema # None

\* primaryModel.supportsStructuredOutput && schema && !forceJsonMode
UseStructuredOutput(primaryModel, schema, forceJsonMode) ==
  primaryModel.supportsStructuredOutput /\ schema # None /\ ~forceJsonMode

\* Mutant: the first backup gives the model id only; the routing defaults
\* stay those of the original primary model.
DemotedPrimary_KeepsDefaults(primaryModel, backupModels) ==
  IF Len(backupModels) > 0
  THEN ModelInfo(backupModels[1].id, backupModels[1].supportsStructuredOutput,
                 primaryModel.defaultRoutingOptions)
  ELSE primaryModel

\* The catch block: primaryModel = backupModels[0] when there is a backup.
DemotedPrimary(primaryModel, backupModels) ==
  IF Len(backupModels) > 0 THEN backupModels[1] ELSE primaryModel

\* Mutant: the promoted backup stays in the backup list.
DemotedBackups_KeepsFirst(backupModels) == backupModels

\* backupModels = backupModels.length > 1 ? backupModels.slice(1) : []
DemotedBackups(backupModels) ==
  IF Len(backupModels) > 0
  THEN IF Len(backupModels) > 1 THEN Tail(backupModels) ELSE <<>>
  ELSE backupModels

(***************************************************************************)
(* The inputs the model draws from.                                        *)
(***************************************************************************)
CallIds == {1, 2}

BackupLists == UNION {[1..n -> ModelPool] : n \in 0..MaxBackups}

Overrides ==
  {None, Some(RoutingOptions(Some("latency"), Some(<<>>), Some(<<"Lambda">>)))}

\* The arguments of one makeLLMCall; backupModels, schemaName and
\* forceJsonMode carry their defaults when the caller omits them.
ArgSets ==
  [systemPrompt : {None, Some("Be fast.")},
   userPrompt : {"Summarize this article."},
   primaryModel : ModelPool,
   backupModels : BackupLists,
   schema : {None} \cup {Some(z) : z \in Schemas},
   schemaName : {"response", "summary"},
   forceJsonMode : BOOLEAN,
   routingOptions : Overrides]

Keys == {None, Some(""), Some("sk-or-v1")}

FencedDocA == <<FENCE, JSONWORD, NL, DocA, NL, FENCE>>
Contents == <<<<DocA>>, <<DocAX>>, <<DocB>>, FencedDocA, <<PROSE, DocA>>>>

Choice(content) == [message |-> Some([content |-> content])]

OkResponse(data) == HttpResponse("resolves", TRUE, "200", "OK", "json", data, <<>>)

\* What the network may do with a request: return one of Contents, return
\* no choice, answer 429 with a structured error body, answer 502 with a
\* text body, or fail in fetch with an Error or with another value.
Responses ==
  <<OkResponse(Body(Some(<<Choice(Contents[1])>>), None)),
    OkResponse(Body(Some(<<Choice(Contents[2])>>), None)),
    OkResponse(Body(Some(<<Choice(Contents[3])>>), None)),
    OkResponse(Body(Some(<<Choice(Contents[4])>>), None)),
    OkResponse(Body(Some(<<Choice(Contents[5])>>), None)),
    OkResponse(Body(Some(<<>>), None)),
    HttpResponse("resolves", FALSE, "429", "Too Many Requests", "json",
                 Body(None, Some([code |-> Some("429"),
                                  message |-> Some("rate limited")])),
                 <<>>),
    HttpResponse("resolves", FALSE, "502", "Bad Gateway", "text",
                 Body(None, None), <<>>),
    HttpResponse("throwsError", FALSE, "", "", "unreadable",
                 Body(None, None), <<"connect ECONNRESET">>),
    HttpResponse("throwsOther", FALSE, "", "", "unreadable",
                 Body(None, None), <<>>)>>

(***************************************************************************)
(* State.                                                                  *)
(*   OPENROUTER_API_KEY  the module constant read from the environment     *)
(*   registry      the exported Models object, shared by every call        *)
(*   active        the calls under way in this behaviour                   *)
(*   args          what each caller passed, as the caller holds it         *)
(*   pc            where each call is                                      *)
(*   primaryModel, backupModels   makeLLMCall's own bindings               *)
(*   requests      the request bodies handed to makeOpenrouterCall         *)
(*   received      what fetch did, per call of fetch that has settled      *)
(*   outcomes      what makeOpenrouterCall returned or threw, per request  *)
(*   fetches       how many times fetch was called                         *)
(*   log           the order of schema conversions, sends and fetches      *)
(*   result, error what the call's promise resolved or rejected with       *)
(***************************************************************************)
VARIABLES OPENROUTER_API_KEY, registry, active, args, pc, primaryModel,
          backupModels, requests, received, outcomes, fetches, log, result,
          error

vars == <<OPENROUTER_API_KEY, registry, active, args, pc, primaryModel,
          backupModels, requests, received, outcomes, fetches, log, result,
          error>>

NoError == Err("", <<>>)

IdleArgs == CHOOSE a \in ArgSets : a.backupModels = <<>>

\* The state when the calls in running have just been made with arguments
\* from argSets; the other call ids are not used.
InitCalls(running, argSets) ==
  /\ OPENROUTER_API_KEY \in Keys
  /\ registry = Models
  /\ active = running
  /\ \E given \in [running -> argSets] :
       args = [c \in CallIds |-> IF c \in running THEN given[c] ELSE IdleArgs]
  /\ pc = [c \in CallIds |-> IF c \in running THEN "ChooseMode" ELSE "Idle"]
  /\ primaryModel = [c \in CallIds |-> args[c].primaryModel]
  /\ backupModels = [c \in CallIds |-> args[c].backupModels]
  /\ requests = [c \in CallIds |-> <<>>]
  /\ received = [c \in CallIds |-> <<>>]
  /\ outcomes = [c \in CallIds |-> <<>>]
  /\ fetches = [c \in CallIds |-> 0]
  /\ log = [c \in CallIds |-> <<>>]
  /\ result = [c \in CallIds |-> ""]
  /\ error = [c \in CallIds |-> NoError]

Init == InitCalls({1}, ArgSets)

\* Mutant: a call that skips the structured attempt switches to its first
\* backup as if that attempt had failed.
ChooseMode_DemotesOnSkip(c) ==
  /\ pc[c] = "ChooseMode"
  /\ IF UseStructuredOutput(primaryModel[c], args[c].schema,
                            args[c].forceJsonMode)
     THEN /\ pc' = [pc EXCEPT ![c] = "StructuredAttempt"]
          /\ UNCHANGED <<primaryModel, backupModels>>
     ELSE /\ pc' = [pc EXCEPT ![c] = "JsonModeAttempt"]
          /\ primaryModel' = [primaryModel EXCEPT ![c] =
                                DemotedPrimary(primaryModel[c], backupModels[c])]
          /\ backupModels' = [backupModels EXCEPT ![c] =
                                DemotedBackups(backupModels[c])]
  /\ UNCHANGED <<OPENROUTER_API_KEY, registry, received, active, args,
                 requests, outcomes, fetches, log, result, error>>

\* makeLLMCall line 496: structured output first, or straight to JSON mode.
ChooseMode(c) ==
  /\ pc[c] = "ChooseMode"
  /\ pc' = [pc EXCEPT ![c] =
              IF UseStructuredOutput(primaryModel[c], args[c].schema,
                                     args[c].forceJsonMode)
              THEN "StructuredAttempt" ELSE "JsonModeAttempt"]
  /\ UNCHANGED <<OPENROUTER_API_KEY, registry, received, active, args,
                 primaryModel, backupModels,
                 requests, outcomes, fetches, log, result, error>>

\* _callInStructuredOutputMode up to the await of fetch: the schema is
\* converted, the request built and handed to makeOpenrouterCall, which
\* throws at once without a key and calls fetch otherwise.
StructuredSend(c) ==
  /\ pc[c] = "StructuredAttempt"
  /\ requests' = [requests EXCEPT ![c] = Append(@,
       StructuredRequestBody(
         IF args[c].systemPrompt = None \/ Get(args[c].systemPrompt) = ""
         THEN DefaultStructuredSystemPrompt ELSE Get(args[c].systemPrompt),
         args[c].userPrompt, primaryModel[c], backupModels[c],
         Get(args[c].schema), args[c].schemaName, args[c].routingOptions))]
  /\ IF KeyMissing(OPENROUTER_API_KEY)
     THEN /\ outcomes' = [outcomes EXCEPT ![c] =
                            Append(@, Thrown(ConfigurationError))]
          /\ log' = [log EXCEPT ![c] = @ \o <<"convert", "send">>]
          /\ pc' = [pc EXCEPT ![c] = "StructuredFailure"]
          /\ UNCHANGED fetches
     ELSE /\ log' = [log EXCEPT ![c] = @ \o <<"convert", "send", "fetch">>]
          /\ fetches' = [fetches EXCEPT ![c] = @ + 1]
          /\ pc' = [pc EXCEPT ![c] = "StructuredWait"]
          /\ UNCHANGED outcomes
  /\ UNCHANGED <<OPENROUTER_API_KEY, registry, received, active, args,
                 primaryModel, backupModels,
                 result, error>>

\* Mutant: makeLLMCall has no try/catch around the structured call, so its
\* failure is what the caller gets.
StructuredReceive_Rethrows(c, resp) ==
  /\ pc[c] = "StructuredWait"
  /\ received' = [received EXCEPT ![c] = Append(@, resp)]
  /\ outcomes' = [outcomes EXCEPT ![c] = Append(@, HandleResponse(resp))]
  /\ LET r == StructuredResult(Get(args[c].schema), HandleResponse(resp))
     IN IF r.ok
        THEN /\ pc' = [pc EXCEPT ![c] = "StructuredSuccess"]
             /\ result' = [result EXCEPT ![c] = r.value]
             /\ UNCHANGED error
        ELSE /\ pc' = [pc EXCEPT ![c] = "JsonFailure"]
             /\ error' = [error EXCEPT ![c] = r.error]
             /\ UNCHANGED result
  /\ UNCHANGED <<OPENROUTER_API_KEY, registry, active, args,
                 primaryModel, backupModels,
                 requests, fetches, log>>

\* The rest of _callInStructuredOutputMode once fetch settles.
StructuredReceive(c, resp) ==
  /\ pc[c] = "StructuredWait"
  /\ received' = [received EXCEPT ![c] = Append(@, resp)]
  /\ outcomes' = [outcomes EXCEPT ![c] = Append(@, HandleResponse(resp))]
  /\ LET r == StructuredResult(Get(args[c].schema), HandleResponse(resp))
     IN IF r.ok
        THEN /\ pc' = [pc EXCEPT ![c] = "StructuredSuccess"]
             /\ result' = [result EXCEPT ![c] = r.value]
        ELSE /\ pc' = [pc EXCEPT ![c] = "StructuredFailure"]
             /\ UNCHANGED result
  /\ UNCHANGED <<OPENROUTER_API_KEY, registry, active, args,
                 primaryModel, backupModels,
                 requests, fetches, log, error>>

\* Mutant: primaryModel and backupModels are bindings of the module, which
\* every call under way reads, and not of the call.
Demote_SharedBindings(c) ==
  /\ pc[c] = "StructuredFailure"
  /\ primaryModel' = [d \in CallIds |->
                        DemotedPrimary(primaryModel[c], backupModels[c])]
  /\ backupModels' = [d \in CallIds |-> DemotedBackups(backupModels[c])]
  /\ pc' = [pc EXCEPT ![c] = "JsonModeAttempt"]
  /\ UNCHANGED <<OPENROUTER_API_KEY, registry, received, active, args,
                 requests, outcomes, fetches, log, result, error>>

\* Mutant: the first backup is taken off the caller's own list, in place
\* (backupModels.shift()), and becomes the primary model.
Demote_ShiftsCallersList(c) ==
  /\ pc[c] = "StructuredFailure"
  /\ primaryModel' = [primaryModel EXCEPT ![c] =
                        DemotedPrimary(primaryModel[c], backupModels[c])]
  /\ backupModels' = [backupModels EXCEPT ![c] =
                        DemotedBackups(backupModels[c])]
  /\ args' = [args EXCEPT ![c].backupModels = DemotedBackups(@)]
  /\ pc' = [pc EXCEPT ![c] = "JsonModeAttempt"]
  /\ UNCHANGED <<OPENROUTER_API_KEY, registry, received, active, requests,
                 outcomes, fetches, log, result, error>>

\* Mutant: without a backup model to switch to, the catch block re-throws.
Demote_GivesUpWithoutBackup(c) ==
  /\ pc[c] = "StructuredFailure"
  /\ IF Len(backupModels[c]) > 0
     THEN /\ primaryModel' = [primaryModel EXCEPT ![c] = backupModels[c][1]]
          /\ backupModels' = [backupModels EXCEPT ![c] = Tail(@)]
          /\ pc' = [pc EXCEPT ![c] = "JsonModeAttempt"]
          /\ UNCHANGED error
     ELSE /\ pc' = [pc EXCEPT ![c] = "JsonFailure"]
          /\ error' = [error EXCEPT ![c] = outcomes[c][1].error]
          /\ UNCHANGED <<primaryModel, backupModels>>
  /\ UNCHANGED <<OPENROUTER_API_KEY, registry, received, active, args,
                 requests, outcomes,
                 fetches, log, result>>

\* Mutant: the catch block re-throws a missing-key error instead of falling
\* back.
Demote_ConfigurationFatal(c) ==
  /\ pc[c] = "StructuredFailure"
  /\ IF outcomes[c][1].error.kind = "ConfigurationError"
     THEN /\ pc' = [pc EXCEPT ![c] = "JsonFailure"]
          /\ error' = [error EXCEPT ![c] = outcomes[c][1].error]
          /\ UNCHANGED <<primaryModel, backupModels>>
     ELSE /\ primaryModel' = [primaryModel EXCEPT ![c] =
                                DemotedPrimary(primaryModel[c], backupModels[c])]
          /\ backupModels' = [backupModels EXCEPT ![c] =
                                DemotedBackups(backupModels[c])]
          /\ pc' = [pc EXCEPT ![c] = "JsonModeAttempt"]
          /\ UNCHANGED error
  /\ UNCHANGED <<OPENROUTER_API_KEY, registry, received, active, args,
                 requests, outcomes,
                 fetches, log, result>>

\* makeLLMCall's catch block, lines 510-519: whatever was thrown is logged
\* and dropped, and the first backup, if any, becomes the primary model.
Demote(c) ==
  /\ pc[c] = "StructuredFailure"
  /\ primaryModel' = [primaryModel EXCEPT ![c] =
                        DemotedPrimary(primaryModel[c], backupModels[c])]
  /\ backupModels' = [backupModels EXCEPT ![c] =
                        DemotedBackups(backupModels[c])]
  /\ pc' = [pc EXCEPT ![c] = "JsonModeAttempt"]
  /\ UNCHANGED <<OPENROUTER_API_KEY, registry, received, active, args,
                 requests, outcomes,
                 fetches, log, result, error>>

\* Mutant: the JSON-mode attempt sends the caller's prompt as it is; the
\* schema is not converted for a hint.
JsonSend_NoSchemaHint(c) ==
  /\ pc[c] = "JsonModeAttempt"
  /\ requests' = [requests EXCEPT ![c] = Append(@,
       JsonRequestBody(args[c].systemPrompt,
                       UserPrompt(args[c].userPrompt, None),
                       primaryModel[c], backupModels[c],
                       args[c].routingOptions))]
  /\ LET converted == <<>>
     IN IF KeyMissing(OPENROUTER_API_KEY)
        THEN /\ outcomes' = [outcomes EXCEPT ![c] =
                               Append(@, Thrown(ConfigurationError))]
             /\ log' = [log EXCEPT ![c] = @ \o converted \o <<"send">>]
             /\ pc' = [pc EXCEPT ![c] = "JsonFailure"]
             /\ error' = [error EXCEPT ![c] = ConfigurationError]
             /\ UNCHANGED fetches
        ELSE /\ log' = [log EXCEPT ![c] =
                          @ \o converted \o <<"send", "fetch">>]
             /\ fetches' = [fetches EXCEPT ![c] = @ + 1]
             /\ pc' = [pc EXCEPT ![c] = "JsonWait"]
             /\ UNCHANGED <<outcomes, error>>
  /\ UNCHANGED <<OPENROUTER_API_KEY, registry, received, active, args,
                 primaryModel, backupModels,
                 result>>

\* makeLLMCall lines 533-554 and _callInJSONMode up to the await of fetch.
JsonSend(c) ==
  /\ pc[c] = "JsonModeAttempt"
  /\ requests' = [requests EXCEPT ![c] = Append(@,
       JsonRequestBody(args[c].systemPrompt,
                       PromptForJsonMode(args[c].userPrompt, args[c].schema),
                       primaryModel[c], backupModels[c],
                       args[c].routingOptions))]
  /\ LET converted == IF args[c].schema = None THEN <<>> ELSE <<"convert">>
     IN IF KeyMissing(OPENROUTER_API_KEY)
        THEN /\ outcomes' = [outcomes EXCEPT ![c] =
                               Append(@, Thrown(ConfigurationError))]
             /\ log' = [log EXCEPT ![c] = @ \o converted \o <<"send">>]
             /\ pc' = [pc EXCEPT ![c] = "JsonFailure"]
             /\ error' = [error EXCEPT ![c] = ConfigurationError]
             /\ UNCHANGED fetches
        ELSE /\ log' = [log EXCEPT ![c] =
                          @ \o converted \o <<"send", "fetch">>]
             /\ fetches' = [fetches EXCEPT ![c] = @ + 1]
             /\ pc' = [pc EXCEPT ![c] = "JsonWait"]
             /\ UNCHANGED <<outcomes, error>>
  /\ UNCHANGED <<OPENROUTER_API_KEY, registry, received, active, args,
                 primaryModel, backupModels,
                 result>>

\* Mutant: a failed JSON-mode attempt is sent again.
JsonReceive_Retries(c, resp) ==
  /\ pc[c] = "JsonWait"
  /\ received' = [received EXCEPT ![c] = Append(@, resp)]
  /\ outcomes' = [outcomes EXCEPT ![c] = Append(@, HandleResponse(resp))]
  /\ LET r == JsonModeResult(HandleResponse(resp))
     IN IF r.ok
        THEN /\ pc' = [pc EXCEPT ![c] = "JsonSuccess"]
             /\ result' = [result EXCEPT ![c] = r.value]
        ELSE /\ pc' = [pc EXCEPT ![c] = "JsonModeAttempt"]
             /\ UNCHANGED result
  /\ UNCHANGED <<OPENROUTER_API_KEY, registry, active, args,
                 primaryModel, backupModels,
                 requests, fetches, log, error>>

\* Mutant: the JSON-mode value is checked against the caller's schema.
JsonReceive_Validates(c, resp) ==
  /\ pc[c] = "JsonWait"
  /\ received' = [received EXCEPT ![c] = Append(@, resp)]
  /\ outcomes' = [outcomes EXCEPT ![c] = Append(@, HandleResponse(resp))]
  /\ LET r == JsonModeResult(HandleResponse(resp))
         accepted == r.ok /\ (args[c].schema = None
                              \/ SafeParseSuccess(Get(args[c].schema), r.value))
     IN IF accepted
        THEN /\ pc' = [pc EXCEPT ![c] = "JsonSuccess"]
             /\ result' = [result EXCEPT ![c] = r.value]
             /\ UNCHANGED error
        ELSE /\ pc' = [pc EXCEPT ![c] = "JsonFailure"]
             /\ error' = [error EXCEPT ![c] =
                            IF r.ok THEN ZodValidationError ELSE r.error]
             /\ UNCHANGED result
  /\ UNCHANGED <<OPENROUTER_API_KEY, registry, active, args,
                 primaryModel, backupModels,
                 requests, fetches, log>>

\* The rest of _callInJSONMode once fetch settles.
JsonReceive(c, resp) ==
  /\ pc[c] = "JsonWait"
  /\ received' = [received EXCEPT ![c] = Append(@, resp)]
  /\ outcomes' = [outcomes EXCEPT ![c] = Append(@, HandleResponse(resp))]
  /\ LET r == JsonModeResult(HandleResponse(resp))
     IN IF r.ok
        THEN /\ pc' = [pc EXCEPT ![c] = "JsonSuccess"]
             /\ result' = [result EXCEPT ![c] = r.value]
             /\ UNCHANGED error
        ELSE /\ pc' = [pc EXCEPT ![c] = "JsonFailure"]
             /\ error' = [error EXCEPT ![c] = r.error]
             /\ UNCHANGED result
  /\ UNCHANGED <<OPENROUTER_API_KEY, registry, active, args,
                 primaryModel, backupModels,
                 requests, fetches, log>>

Range(list) == {list[i] : i \in 1..Len(list)}

\* One step of one call; responses lists what the network may answer.
NextOver(responses) ==
  \/ \E c \in active : ChooseMode(c)
  \/ \E c \in active : StructuredSend(c)
  \/ \E c \in active, resp \in Range(responses) :
       StructuredReceive(c, resp)
  \/ \E c \in active : Demote(c)
  \/ \E c \in active : JsonSend(c)
  \/ \E c \in active, resp \in Range(responses) :
       JsonReceive(c, resp)

Next == NextOver(Responses)

Spec == Init /\ [][Next]_vars

\* FairSpec: calls with default prompts, schema name and routing, under the
\* assumption that every transport call returns or fails and that a call
\* that can take its next step takes it.
FairArgSets ==
  {a \in ArgSets : /\ a.systemPrompt = None
                   /\ a.schemaName = "response"
                   /\ a.routingOptions = None}

FairInit == InitCalls({1}, FairArgSets)

FairSpec == FairInit /\ [][Next]_vars /\ WF_vars(Next)

(***************************************************************************)
(* RoutingSpec: the same calls, drawn to exercise _buildRoutingOptions.    *)
(* The primary model and the first backup are ModelInfo values with every  *)
(* combination of default routing options, the override ranges over every  *)
(* combination of override values, and the network either returns a        *)
(* document or fails.                                                      *)
(***************************************************************************)
OverrideLists == {None, Some(<<>>), Some(<<"Lambda">>), Some(<<"Lambda", "Groq">>)}
DefaultLists == {None, Some(<<>>), Some(<<"InferenceNet">>)}

RoutingOverrides ==
  {None} \cup
  {Some(RoutingOptions(sort, order, ignore)) :
     sort \in {None, Some("latency"), Some("throughput")},
     order \in OverrideLists, ignore \in OverrideLists}

RoutingDefaults ==
  {None} \cup
  {Some(RoutingOptions(sort, order, ignore)) :
     sort \in {None, Some("price")},
     order \in DefaultLists, ignore \in DefaultLists}

\* A backup model whose default routing options differ from every primary
\* model's: another sort, another order, and an empty ignore list.
RoutingBackup ==
  ModelInfo("vendor/backup", FALSE,
            Some(RoutingOptions(Some("throughput"), Some(<<"Groq">>),
                                Some(<<>>))))

RoutingArgSets ==
  [systemPrompt : {None},
   userPrompt : {"Summarize this article."},
   primaryModel : {ModelInfo("vendor/primary", TRUE, d) : d \in RoutingDefaults},
   backupModels : {<<>>, <<Models.DeepseekR1>>, <<RoutingBackup>>,
                   <<Models.DeepseekR1, Models.GPT4o, Models.GPT35Turbo>>},
   schema : {None, Some(StrictA)},
   schemaName : {"response"},
   forceJsonMode : {FALSE},
   routingOptions : RoutingOverrides]

RoutingResponses ==
  <<OkResponse(Body(Some(<<Choice(<<DocA>>)>>), None)),
    OkResponse(Body(Some(<<>>), None))>>

RoutingInit ==
  /\ InitCalls({1}, RoutingArgSets)
  /\ OPENROUTER_API_KEY = Some("sk-or-v1")

RoutingNext == NextOver(RoutingResponses)

RoutingSpec == RoutingInit /\ [][RoutingNext]_vars

(***************************************************************************)
(* TransportSpec: one call with a key, one model and no backup, drawn to   *)
(* exercise makeOpenrouterCall.  The network answers with every shape of   *)
(* success body, with every combination of missing, falsy and present code *)
(* and message in a structured error body, with error bodies of another    *)
(* shape, not JSON or unreadable, or fails in fetch.                       *)
(***************************************************************************)
ErrorCodes == <<None, Some("0"), Some("rate_limit_exceeded")>>
ErrorMessages == <<None, Some(""), Some("rate limited")>>

ErrorResponse(body, data) ==
  HttpResponse("resolves", FALSE, "429", "Too Many Requests", body, data, <<>>)

StructuredErrorResponse(code, message) ==
  ErrorResponse("json", Body(None, Some([code |-> code, message |-> message])))

TransportResponses ==
  <<OkResponse(Body(None, None)),
    OkResponse(Body(Some(<<>>), None)),
    OkResponse(Body(Some(<<[message |-> None]>>), None)),
    OkResponse(Body(Some(<<Choice(<<>>)>>), None)),
    OkResponse(Body(Some(<<Choice(<<DocA>>)>>), None)),
    OkResponse(Body(Some(<<Choice(FencedDocA), Choice(<<DocB>>)>>), None)),
    OkResponse(Body(Some(<<Choice(<<SP, PROSE, NL>>)>>), None)),
    HttpResponse("resolves", TRUE, "200", "OK", "null", Body(None, None), <<>>),
    HttpResponse("resolves", TRUE, "200", "OK", "text", Body(None, None), <<>>),
    StructuredErrorResponse(ErrorCodes[1], ErrorMessages[1]),
    StructuredErrorResponse(ErrorCodes[1], ErrorMessages[2]),
    StructuredErrorResponse(ErrorCodes[1], ErrorMessages[3]),
    StructuredErrorResponse(ErrorCodes[2], ErrorMessages[1]),
    StructuredErrorResponse(ErrorCodes[2], ErrorMessages[2]),
    StructuredErrorResponse(ErrorCodes[2], ErrorMessages[3]),
    StructuredErrorResponse(ErrorCodes[3], ErrorMessages[1]),
    StructuredErrorResponse(ErrorCodes[3], ErrorMessages[2]),
    StructuredErrorResponse(ErrorCodes[3], ErrorMessages[3]),
    ErrorResponse("json", Body(None, None)),
    ErrorResponse("json", Body(Some(<<Choice(<<DocA>>)>>), None)),
    ErrorResponse("null", Body(None, None)),
    ErrorResponse("text", Body(None, None)),
    ErrorResponse("unreadable", Body(None, None)),
    HttpResponse("throwsError", FALSE, "", "", "unreadable",
                 Body(None, None), <<"connect ECONNRESET">>),
    HttpResponse("throwsError", FALSE, "", "", "unreadable",
                 Body(None, None), <<"fetch failed">>),
    HttpResponse("throwsOther", FALSE, "", "", "unreadable",
                 Body(None, None), <<"socket hang up">>)>>

TransportArgSets ==
  {a \in FairArgSets : /\ a.primaryModel = Models.GPT4o
                       /\ a.backupModels = <<>>
                       /\ a.schema \in {None, Some(StrictA)}}

TransportInit ==
  /\ InitCalls({1}, TransportArgSets)
  /\ OPENROUTER_API_KEY = Some("sk-or-v1")

TransportNext == NextOver(TransportResponses)

TransportSpec == TransportInit /\ [][TransportNext]_vars

(***************************************************************************)
(* CleanSpec: one JSON-mode call whose response text is any sequence of at *)
(* most MaxTextLen tokens, drawn to exercise the cleaning of               *)
(* _callInJSONMode.                                                        *)
(***************************************************************************)
CleanTokens == {FENCE, JSONWORD, NL, SP, DocA}

TextsUpTo(n) == UNION {[1..k -> CleanTokens] : k \in 0..n}

CleanArgSets == {a \in TransportArgSets : a.schema = None /\ ~a.forceJsonMode}

CleanInit ==
  /\ InitCalls({1}, CleanArgSets)
  /\ OPENROUTER_API_KEY = Some("sk-or-v1")

CleanNext ==
  \/ \E c \in active : ChooseMode(c)
  \/ \E c \in active : JsonSend(c)
  \/ \E c \in active :
       /\ pc[c] = "JsonWait"
       /\ \E text \in TextsUpTo(MaxTextLen) :
            JsonReceive(c, OkResponse(Body(Some(<<Choice(text)>>), None)))

CleanSpec == CleanInit /\ [][CleanNext]_vars

(***************************************************************************)
(* ConcurrentSpec: two calls of makeLLMCall under way at once, their steps *)
(* interleaved in every order.  Each call has its own arguments and gets   *)
(* its own answers from the network.                                       *)
(***************************************************************************)
ConcurrentArgSets ==
  {a \in FairArgSets : /\ a.primaryModel = Models.GPT4o
                       /\ a.backupModels \in {<<>>, <<Models.DeepseekR1>>}
                       /\ a.schema \in {None, Some(StrictA)}
                       /\ ~a.forceJsonMode}

ConcurrentResponses == <<Responses[1], Responses[2], Responses[7]>>

ConcurrentInit == InitCalls({1, 2}, ConcurrentArgSets)

ConcurrentNext == NextOver(ConcurrentResponses)

ConcurrentSpec == ConcurrentInit /\ [][ConcurrentNext]_vars

(***************************************************************************)
(* Vocabulary of the properties.                                           *)
(***************************************************************************)
Terminal == {"StructuredSuccess", "JsonSuccess", "JsonFailure"}

IsStructured(rq) == rq.response_format.type = "json_schema"
IsJsonObject(rq) == rq.response_format.type = "json_object"

StructuredSent(c) == \E i \in 1..Len(requests[c]) : IsStructured(requests[c][i])

\* The call sent a structured request and that attempt has failed.
StructuredFailed(c) ==
  /\ Len(requests[c]) >= 1
  /\ IsStructured(requests[c][1])
  /\ Len(outcomes[c]) >= 1
  /\ pc[c] # "StructuredSuccess"

\* The call has sent its JSON-mode request after a failed structured one.
FellBack(c) ==
  /\ Len(requests[c]) = 2
  /\ IsStructured(requests[c][1])
  /\ IsJsonObject(requests[c][2])

IdsSent(rq) == {rq.models[i] : i \in 1..Len(rq.models)}

(***************************************************************************)
(* C1.  A structured (json_schema) request is sent exactly when the        *)
(* caller's primary model supports structured output, a schema was given   *)
(* and forceJsonMode is false; it is only ever the first request, so none  *)
(* is sent after demotion, whatever the backup model supports.             *)
(***************************************************************************)
C1_StructuredIffQualified ==
  \A c \in active :
    LET qualifies == /\ args[c].primaryModel.supportsStructuredOutput
                     /\ args[c].schema # None
                     /\ ~args[c].forceJsonMode
    IN /\ StructuredSent(c) => qualifies
       /\ (qualifies /\ pc[c] \notin {"ChooseMode", "StructuredAttempt"})
            => StructuredSent(c)
       /\ \A i \in 2..Len(requests[c]) : ~IsStructured(requests[c][i])

\* A call demoted to a backup that supports structured output has sent its
\* second request, in JSON mode.
C1_Witness ==
  \E c \in active :
    /\ FellBack(c)
    /\ primaryModel[c] # args[c].primaryModel
    /\ primaryModel[c].supportsStructuredOutput

(***************************************************************************)
(* C2.  As claimed: after a failed structured attempt with a non-empty     *)
(* backup list, the JSON-mode request targets the first backup and that    *)
(* model's id is absent from the fallback list sent with it.               *)
(***************************************************************************)
C2_Original_FirstBackupAbsent ==
  \A c \in active :
    (FellBack(c) /\ Len(args[c].backupModels) > 0)
      => /\ requests[c][2].model = args[c].backupModels[1].id
         /\ args[c].backupModels[1].id \notin IdsSent(requests[c][2])

(***************************************************************************)
(* C2, amended.  After a failed structured attempt with a non-empty backup *)
(* list, the JSON-mode request targets the first backup and its fallback   *)
(* list is the ids of the backups from the second on; the first backup's   *)
(* id is absent from it exactly when that id does not occur again later in *)
(* the backup list.                                                        *)
(***************************************************************************)
C2_DemotionDropsFirstEntry ==
  \A c \in active :
    (FellBack(c) /\ Len(args[c].backupModels) > 0)
      => LET given == args[c].backupModels
             rq == requests[c][2]
         IN /\ rq.model = given[1].id
            /\ Len(rq.models) = Len(given) - 1
            /\ \A i \in 1..Len(rq.models) : rq.models[i] = given[i + 1].id
            /\ (given[1].id \notin IdsSent(rq))
                 <=> (\A i \in 2..Len(given) : given[i].id # given[1].id)

\* Demotion with two different backups: the first is the target, the second
\* the only fallback.
C2_Witness ==
  \E c \in active :
    /\ FellBack(c)
    /\ Len(args[c].backupModels) = 2
    /\ args[c].backupModels[1] # args[c].backupModels[2]
    /\ requests[c][2].models = <<args[c].backupModels[2].id>>

(***************************************************************************)
(* C3.  When the structured attempt has failed and the caller gave no      *)
(* backups, the call goes on to a JSON-mode request to the same primary    *)
(* model with an empty fallback list.                                      *)
(***************************************************************************)
C3_NoBackupSamePrimary ==
  \A c \in active :
    (/\ StructuredFailed(c)
     /\ args[c].backupModels = <<>>
     /\ pc[c] \in {"JsonWait"} \cup Terminal)
      => /\ FellBack(c)
         /\ requests[c][2].model = args[c].primaryModel.id
         /\ requests[c][2].models = <<>>

\* The structured content parsed but failed schema validation, no backups,
\* and the JSON-mode request is out.
C3_Witness ==
  \E c \in active :
    /\ FellBack(c)
    /\ args[c].backupModels = <<>>
    /\ outcomes[c][1].ok
    /\ JsonParses(outcomes[c][1].content)
    /\ ~SafeParseSuccess(Get(args[c].schema), JsonValue(outcomes[c][1].content))

(***************************************************************************)
(* C4.  A call hands at most two requests to the transport, a structured   *)
(* one only first and a JSON-mode one only last; the second is sent only   *)
(* after the first has settled, and fetch is called at most once per       *)
(* request.                                                                *)
(***************************************************************************)
C4_AtMostTwoSequentialRequests ==
  \A c \in active :
    /\ Len(requests[c]) <= 2
    /\ \A i \in 1..Len(requests[c]) :
         /\ IsStructured(requests[c][i]) => i = 1
         /\ IsJsonObject(requests[c][i]) => i = Len(requests[c])
         /\ IsStructured(requests[c][i]) \/ IsJsonObject(requests[c][i])
    /\ Len(outcomes[c]) <= Len(requests[c])
    /\ Len(requests[c]) <= Len(outcomes[c]) + 1
    /\ fetches[c] <= Len(requests[c])
    /\ pc[c] \in Terminal => Len(outcomes[c]) = Len(requests[c])

\* Both round trips were made and the call is over.
C4_Witness ==
  \E c \in active : FellBack(c) /\ fetches[c] = 2 /\ pc[c] \in Terminal

(***************************************************************************)
(* C5.  Under FairSpec every call ends in one of StructuredSuccess,        *)
(* JsonSuccess and JsonFailure and stays there; a failed structured        *)
(* attempt always leads on to the JSON-mode attempt, and the error a       *)
(* failed call rejects with is the one its JSON-mode request ended with.   *)
(***************************************************************************)
C5_JsonTierError(c) ==
  /\ Len(requests[c]) >= 1
  /\ IsJsonObject(requests[c][Len(requests[c])])
  /\ Len(outcomes[c]) = Len(requests[c])
  /\ LET out == outcomes[c][Len(outcomes[c])]
     IN error[c] = IF out.ok THEN JsonParseError ELSE out.error

C5_EndsInOneTerminalState ==
  /\ \A c \in CallIds : <>(c \in active => pc[c] \in Terminal)
  /\ [][\A c \in active :
          /\ pc[c] \in Terminal => pc'[c] = pc[c]
          /\ pc[c] = "StructuredFailure"
               => pc'[c] \in {"StructuredFailure", "JsonModeAttempt"}
          /\ pc[c] = "StructuredWait"
               => pc'[c] \in {"StructuredWait", "StructuredSuccess",
                              "StructuredFailure"}]_vars
  /\ [](\A c \in active : pc[c] = "JsonFailure" => C5_JsonTierError(c))

\* A call whose structured content violated the schema ended as a failure
\* of the JSON-mode attempt.
C5_Witness ==
  \E c \in active :
    /\ pc[c] = "JsonFailure"
    /\ FellBack(c)
    /\ outcomes[c][1].ok
    /\ JsonParses(outcomes[c][1].content)
    /\ error[c] = JsonParseError

(***************************************************************************)
(* C6.  A call in StructuredSuccess sent the structured request only, and  *)
(* its result is the data of validating, against the caller's schema, the  *)
(* value parsed from the content that request returned.                    *)
(***************************************************************************)
C6_StructuredSuccessIsValidated ==
  \A c \in active :
    pc[c] = "StructuredSuccess"
      => /\ Len(requests[c]) = 1
         /\ IsStructured(requests[c][1])
         /\ Len(outcomes[c]) = 1
         /\ outcomes[c][1].ok
         /\ JsonParses(outcomes[c][1].content)
         /\ SafeParseSuccess(Get(args[c].schema),
                             JsonValue(outcomes[c][1].content))
         /\ result[c] = SafeParseData(Get(args[c].schema),
                                      JsonValue(outcomes[c][1].content))

\* A structured success whose content carried a key the plain schema strips.
C6_Witness ==
  \E c \in active :
    /\ pc[c] = "StructuredSuccess"
    /\ outcomes[c][1].content = <<DocAX>>
    /\ result[c] = DocA

(***************************************************************************)
(* C7.  When the content a JSON-mode request returned parses as JSON once  *)
(* cleaned, the call ends in JsonSuccess with that parsed value, whether   *)
(* or not a schema was given and whether or not the value conforms to it.  *)
(***************************************************************************)
C7_JsonModeNeverValidates ==
  \A c \in active :
    (/\ Len(requests[c]) >= 1
     /\ IsJsonObject(requests[c][Len(requests[c])])
     /\ Len(outcomes[c]) = Len(requests[c])
     /\ outcomes[c][Len(outcomes[c])].ok
     /\ JsonParses(CleanContent(outcomes[c][Len(outcomes[c])].content)))
      => /\ pc[c] = "JsonSuccess"
         /\ result[c] =
              JsonValue(CleanContent(outcomes[c][Len(outcomes[c])].content))

\* After a schema violation in structured mode, JSON mode returned a value
\* that violates the schema too.
C7_Witness ==
  \E c \in active :
    /\ pc[c] = "JsonSuccess"
    /\ FellBack(c)
    /\ outcomes[c][1].ok
    /\ JsonParses(outcomes[c][1].content)
    /\ ~SafeParseSuccess(Get(args[c].schema), result[c])

(***************************************************************************)
(* C8.  Vocabulary: the model a request was built for, and the value the   *)
(* precedence rule picks for a routing field (override, else the model's   *)
(* default, else nothing).                                                 *)
(***************************************************************************)
C8_ModelOf(c, i) ==
  IF i = 1 \/ args[c].backupModels = <<>> THEN args[c].primaryModel
  ELSE args[c].backupModels[1]

C8_Picked(c, i, field) ==
  LET ov == args[c].routingOptions
      df == C8_ModelOf(c, i).defaultRoutingOptions
  IN IF ov # None /\ Get(ov)[field] # None THEN Get(ov)[field]
     ELSE IF df # None /\ Get(df)[field] # None THEN Get(df)[field]
     ELSE None

(***************************************************************************)
(* C8.  As claimed: in every built preferences object each of sort, order  *)
(* and ignore carries the override value when one is given (an empty list  *)
(* included), else the model's default, and is omitted when neither is     *)
(* present; require_parameters is true.                                    *)
(***************************************************************************)
C8_Original_OverrideValueWins ==
  \A c \in active : \A i \in 1..Len(requests[c]) :
    LET prefs == requests[c][i].provider
    IN /\ prefs.require_parameters = TRUE
       /\ prefs.sort = C8_Picked(c, i, "providerSort")
       /\ prefs.order = C8_Picked(c, i, "providerOrder")
       /\ prefs.ignore = C8_Picked(c, i, "ignoredProviders")

(***************************************************************************)
(* C8, amended.  For each of sort, order and ignore the override value is  *)
(* picked when one is given, else the model's default; the picked value is *)
(* put in the preferences unless it is an empty list, in which case the    *)
(* field is omitted (so an empty override list removes the model's default *)
(* and sends nothing); the field is omitted when neither is present;       *)
(* require_parameters is true.                                             *)
(***************************************************************************)
C8_OverridePrecedence ==
  \A c \in active : \A i \in 1..Len(requests[c]) :
    LET prefs == requests[c][i].provider
        order == C8_Picked(c, i, "providerOrder")
        ignore == C8_Picked(c, i, "ignoredProviders")
    IN /\ prefs.require_parameters = TRUE
       /\ prefs.sort = C8_Picked(c, i, "providerSort")
       /\ prefs.order = IF order = Some(<<>>) THEN None ELSE order
       /\ prefs.ignore = IF ignore = Some(<<>>) THEN None ELSE ignore

\* A request built with an override sort and an empty override order list
\* for a model that has defaults for both, and an ignore list taken from
\* the model's default.
C8_Witness ==
  \E c \in active : \E i \in 1..Len(requests[c]) :
    LET ov == args[c].routingOptions
        df == C8_ModelOf(c, i).defaultRoutingOptions
        prefs == requests[c][i].provider
    IN /\ ov # None /\ df # None
       /\ Get(ov).providerSort = Some("latency")
       /\ Get(df).providerSort = Some("price")
       /\ Get(ov).providerOrder = Some(<<>>)
       /\ Get(df).providerOrder = Some(<<"InferenceNet">>)
       /\ Get(ov).ignoredProviders = None
       /\ Get(df).ignoredProviders = Some(<<"InferenceNet">>)
       /\ prefs.sort = Some("latency")
       /\ prefs.order = None
       /\ prefs.ignore = Some(<<"InferenceNet">>)

(***************************************************************************)
(* C9.  Without an API key (undefined or empty) every request handed to    *)
(* the transport fails with the missing-key error, fetch is never called,  *)
(* and a finished call has failed with that error.                         *)
(***************************************************************************)
KeyAbsent == OPENROUTER_API_KEY \in {None, Some("")}

C9_NoKeyNoNetwork ==
  KeyAbsent =>
    \A c \in active :
      /\ fetches[c] = 0
      /\ "fetch" \notin {log[c][i] : i \in 1..Len(log[c])}
      /\ Len(outcomes[c]) = Len(requests[c])
      /\ \A i \in 1..Len(outcomes[c]) :
           outcomes[c][i] = Thrown(ConfigurationError)
      /\ pc[c] \notin {"StructuredWait", "JsonWait", "StructuredSuccess",
                       "JsonSuccess"}
      /\ pc[c] = "JsonFailure" => error[c] = ConfigurationError

\* With an empty key, a call that tried both tiers has failed.
C9_Witness ==
  /\ OPENROUTER_API_KEY = Some("")
  /\ \E c \in active : pc[c] = "JsonFailure" /\ FellBack(c)

(***************************************************************************)
(* C10.  As claimed: when the key is absent and the structured attempt     *)
(* failed with the missing-key error, the call makes no further attempt:   *)
(* no demotion and no second request to the transport.                     *)
(***************************************************************************)
C10_Original_ConfigurationErrorFatal ==
  KeyAbsent =>
    \A c \in active :
      StructuredFailed(c)
        => /\ Len(requests[c]) = 1
           /\ primaryModel[c] = args[c].primaryModel
           /\ backupModels[c] = args[c].backupModels

(***************************************************************************)
(* C10, amended.  The missing-key error of the structured attempt is       *)
(* handled like any other failure: the call demotes to the first backup    *)
(* if there is one and hands a JSON-mode request to the transport, which   *)
(* fails with the missing-key error again without calling fetch; that      *)
(* second error is what the caller gets.                                   *)
(***************************************************************************)
C10_ConfigurationErrorFallsBack ==
  KeyAbsent =>
    \A c \in active :
      (StructuredFailed(c) /\ pc[c] \in Terminal)
        => /\ pc[c] = "JsonFailure"
           /\ FellBack(c)
           /\ outcomes[c] = <<Thrown(ConfigurationError),
                              Thrown(ConfigurationError)>>
           /\ fetches[c] = 0
           /\ error[c] = ConfigurationError
           /\ requests[c][2].model =
                IF args[c].backupModels = <<>> THEN args[c].primaryModel.id
                ELSE args[c].backupModels[1].id

\* Without a key, a call with a backup was demoted and failed in JSON mode.
C10_Witness ==
  /\ OPENROUTER_API_KEY = None
  /\ \E c \in active :
       /\ pc[c] = "JsonFailure"
       /\ FellBack(c)
       /\ Len(args[c].backupModels) > 0
       /\ primaryModel[c] = args[c].backupModels[1]

(***************************************************************************)
(* Claims about makeOpenrouterCall, checked on every response a call has   *)
(* received: received[c][i] is what fetch did for the i-th request and     *)
(* outcomes[c][i] what makeOpenrouterCall then returned or threw.          *)
(***************************************************************************)
Settled(c) == 1..Len(received[c])

\* The decoded success body lacks a non-empty first choice's content.
C11_LacksContent(data) ==
  \/ data.choices = None
  \/ Get(data.choices) = <<>>
  \/ Get(data.choices)[1].message = None
  \/ Get(Get(data.choices)[1].message).content = <<>>

\* C11 as stated: every HTTP-success response either fails with
\* EmptyCompletion or returns the first choice's content.  A success
\* response whose body is not JSON, or is the JSON value null, does neither.
C11_Original_EverySuccessBody ==
  \A c \in active : \A i \in Settled(c) :
    received[c][i].fetch = "resolves" /\ received[c][i].ok
      => \/ outcomes[c][i] = Thrown(EmptyCompletion)
         \/ outcomes[c][i].ok

\* C11 (amended): for every HTTP-success response whose body decodes to a
\* JSON object, makeOpenrouterCall throws EmptyCompletion when the body has
\* no choices, an empty choices list, or a first choice whose message or
\* content is missing or empty, and otherwise returns the first choice's
\* content unchanged; a success body that is not JSON or decodes to null
\* fails with the decoding error instead.  In every case fetch has been
\* called once per request.
C11_SuccessBodyContent ==
  \A c \in active :
    /\ fetches[c] = Len(requests[c])
    /\ \A i \in Settled(c) :
         LET resp == received[c][i]
             out == outcomes[c][i]
         IN resp.fetch = "resolves" /\ resp.ok
              => IF resp.body = "json"
                 THEN IF C11_LacksContent(resp.data)
                      THEN out = Thrown(EmptyCompletion)
                      ELSE /\ out.ok
                           /\ out.content =
                                Get(Get(resp.data.choices)[1].message).content
                 ELSE /\ ~out.ok
                      /\ out.error.kind \in {"SyntaxError", "TypeError"}

\* A call whose structured attempt got a success body with an empty content
\* and whose JSON-mode attempt got a fenced document back as it was sent.
C11_Witness ==
  \E c \in active :
    /\ Len(received[c]) = 2
    /\ received[c][1].ok
    /\ received[c][1].data.choices = Some(<<Choice(<<>>)>>)
    /\ outcomes[c][1] = Thrown(EmptyCompletion)
    /\ received[c][2].ok
    /\ outcomes[c][2] = Returned(FencedDocA)
    /\ fetches[c] = 2

\* The response is a non-success one whose body decodes to an object with
\* an error member.
StructuredErrorBody(resp) ==
  /\ resp.fetch = "resolves"
  /\ ~resp.ok
  /\ resp.body = "json"
  /\ resp.data.error # None

\* C12 as stated: whatever code and message the error body carries are the
\* ones the RemoteApiError reports.  A code of 0 or an empty message is
\* replaced.
C12_Original_ExactlyBodyValues ==
  \A c \in active : \A i \in Settled(c) :
    LET resp == received[c][i]
        e == Get(resp.data.error)
    IN StructuredErrorBody(resp) /\ e.code # None /\ e.message # None
         => outcomes[c][i] = Thrown(RemoteApiError(Get(e.code), Get(e.message)))

\* C12 (amended): for every HTTP non-success response whose body decodes to
\* {error: {code, message}}, makeOpenrouterCall throws a RemoteApiError that
\* reports the body's code when it is present and neither 0 nor empty, and
\* the HTTP status otherwise, and the body's message when it is present and
\* not empty, and the HTTP status text otherwise.
C12_RemoteApiErrorValues ==
  \A c \in active : \A i \in Settled(c) :
    LET resp == received[c][i]
        e == Get(resp.data.error)
        code == IF e.code \in {None, Some(""), Some("0")}
                THEN resp.status ELSE Get(e.code)
        message == IF e.message \in {None, Some("")}
                   THEN resp.statusText ELSE Get(e.message)
    IN StructuredErrorBody(resp)
         => outcomes[c][i] = Thrown(RemoteApiError(code, message))

\* A call that received an error body with code 0 and an empty message and
\* reported the HTTP status and status text, then received one with both
\* set and reported those.
C12_Witness ==
  \E c \in active :
    /\ Len(received[c]) = 2
    /\ received[c][1] = StructuredErrorResponse(Some("0"), Some(""))
    /\ outcomes[c][1] = Thrown(RemoteApiError("429", "Too Many Requests"))
    /\ received[c][2] =
         StructuredErrorResponse(Some("rate_limit_exceeded"), Some("rate limited"))
    /\ outcomes[c][2] =
         Thrown(RemoteApiError("rate_limit_exceeded", "rate limited"))

\* The response is a non-success one whose body is JSON of another shape,
\* not JSON, or unreadable.
OtherErrorBody(resp) ==
  /\ resp.fetch = "resolves"
  /\ ~resp.ok
  /\ ~StructuredErrorBody(resp)

\* C13 as stated: such a response fails with RemoteApiError(status, status
\* text) and that failure carries the raw body.  The thrown Error holds the
\* final message only.
C13_Original_FailureCarriesBody ==
  \A c \in active : \A i \in Settled(c) :
    OtherErrorBody(received[c][i])
      => /\ outcomes[c][i].error.kind = "RemoteApiError"
         /\ Range(ErrorDetails(received[c][i]))
              \subseteq Range(outcomes[c][i].error.message)

\* C13 (amended): for every non-success response whose body is JSON of
\* another shape, not JSON, or unreadable, makeOpenrouterCall throws a
\* RemoteApiError made of the HTTP status and the status text and of
\* nothing else: the raw body, raw text or placeholder is not part of what
\* the caller gets.  No such response gives a success.
C13_StatusAndStatusTextOnly ==
  \A c \in active : \A i \in Settled(c) :
    LET resp == received[c][i]
        out == outcomes[c][i]
    IN OtherErrorBody(resp)
         => /\ ~out.ok
            /\ out.error.kind = "RemoteApiError"
            /\ out.error.message =
                 <<"OpenRouter API request failed", resp.status, resp.statusText>>
            /\ Range(ErrorDetails(resp)) \cap Range(out.error.message) = {}

\* A call that got a 429 with a text body and then a 429 with an unreadable
\* body, and ended with the RemoteApiError of the second.
C13_Witness ==
  \E c \in active :
    /\ Len(received[c]) = 2
    /\ received[c][1] = ErrorResponse("text", Body(None, None))
    /\ received[c][2] = ErrorResponse("unreadable", Body(None, None))
    /\ pc[c] = "JsonFailure"
    /\ error[c] = RemoteApiError("429", "Too Many Requests")

\* C14 as stated: whatever fetch throws, the failure is a TransportError
\* with the message of the thrown value.  A thrown value that is not an
\* Error is replaced by an Error with a fixed message.
C14_Original_MessagePreserved ==
  \A c \in active : \A i \in Settled(c) :
    received[c][i].fetch # "resolves"
      => /\ outcomes[c][i].error.kind = "TransportError"
         /\ outcomes[c][i].error.message = received[c][i].thrown

\* C14 (amended): an Error thrown by fetch is re-thrown by
\* makeOpenrouterCall as it is, with its message; a thrown value that is not
\* an Error is replaced by an Error with the fixed message of line 301, and
\* its own message is lost.  Both are TransportErrors, no response that
\* fetch resolved with gives a TransportError, and a TransportError is none
\* of ConfigurationError, EmptyCompletion and RemoteApiError.
C14_TransportErrorMessage ==
  \A c \in active : \A i \in Settled(c) :
    LET resp == received[c][i]
        out == outcomes[c][i]
    IN /\ resp.fetch = "throwsError"
            => out = Thrown(Err("TransportError", resp.thrown))
       /\ resp.fetch = "throwsOther"
            => /\ out = Thrown(UnknownCallError)
               /\ out.error.message # resp.thrown
       /\ resp.fetch # "resolves" <=> ~out.ok /\ out.error.kind = "TransportError"
       /\ out.error.kind = "TransportError"
            => /\ out.error # ConfigurationError
               /\ out.error # EmptyCompletion
               /\ out.error.kind # "RemoteApiError"

\* A call whose structured attempt failed in fetch with an Error and whose
\* JSON-mode attempt failed in fetch with another value: the caller gets the
\* generic Error.
C14_Witness ==
  \E c \in active :
    /\ Len(received[c]) = 2
    /\ received[c][1].fetch = "throwsError"
    /\ outcomes[c][1].error.message = <<"connect ECONNRESET">>
    /\ received[c][2].fetch = "throwsOther"
    /\ received[c][2].thrown = <<"socket hang up">>
    /\ pc[c] = "JsonFailure"
    /\ error[c] = UnknownCallError

(***************************************************************************)
(* Claims about the cleaning of a JSON-mode response, checked on every     *)
(* text a JSON-mode attempt got back from makeOpenrouterCall.              *)
(***************************************************************************)
FenceFree(s) == \A i \in 1..Len(s) : s[i] # FENCE

\* s is an opening fence with the word json, a text without fences, and a
\* closing fence.
IsFenced(s) ==
  /\ Len(s) >= 3
  /\ s[1] = FENCE
  /\ s[2] = JSONWORD
  /\ s[Len(s)] = FENCE
  /\ FenceFree(SubSeq(s, 3, Len(s) - 1))

Inner(s) == SubSeq(s, 3, Len(s) - 1)

StartsWithFence(s) == Len(s) >= 2 /\ s[1] = FENCE /\ s[2] = JSONWORD
EndsWithFence(s) == Len(s) >= 1 /\ s[Len(s)] = FENCE

\* The texts the JSON-mode attempts of call c have cleaned.
CleanedTexts(c) ==
  {outcomes[c][i].content : i \in {j \in 1..Len(outcomes[c]) :
                                     /\ IsJsonObject(requests[c][j])
                                     /\ outcomes[c][j].ok}}

\* C15 as stated: cleaning a cleaned text changes nothing, for every text.
\* A closing fence followed by a newline survives the first cleaning and is
\* removed by the second.
C15_Original_Idempotent ==
  \A c \in active : \A s \in CleanedTexts(c) :
    CleanContent(CleanContent(s)) = CleanContent(s)

\* C15 (amended): a text without fences is only trimmed; a text without
\* fences wrapped in an opening fence with the word json and a closing fence
\* cleans to the trimmed inner text, and a call that receives a fenced
\* document resolves with that document; cleaning a cleaned text changes
\* nothing in these two cases, and in general exactly when the cleaned text
\* neither starts with an opening fence and the word json nor ends with a
\* fence.
C15_CleaningOfFences ==
  \A c \in active : \A s \in CleanedTexts(c) :
    /\ FenceFree(s) => CleanContent(s) = Trim(s)
    /\ IsFenced(s) => CleanContent(s) = Trim(Inner(s))
    /\ IsFenced(s) /\ Trim(Inner(s)) = <<DocA>> /\ pc[c] \in Terminal
         => pc[c] = "JsonSuccess" /\ result[c] = DocA
    /\ FenceFree(s) \/ IsFenced(s)
         => CleanContent(CleanContent(s)) = CleanContent(s)
    /\ CleanContent(CleanContent(s)) = CleanContent(s)
         <=> /\ ~StartsWithFence(CleanContent(s))
             /\ ~EndsWithFence(CleanContent(s))

\* A call that received a document between fences, with a space before the
\* document, and resolved with the document.
C15_Witness ==
  \E c \in active :
    /\ pc[c] = "JsonSuccess"
    /\ outcomes[c][1] = Returned(<<FENCE, JSONWORD, SP, DocA, NL, FENCE>>)
    /\ result[c] = DocA

(***************************************************************************)
(* Claims about the requests of a whole call.                              *)
(***************************************************************************)
\* The call does not qualify for the structured attempt: the model does not
\* support it, there is no schema, or the caller forces JSON mode.
SkipsStructured(c) ==
  \/ ~args[c].primaryModel.supportsStructuredOutput
  \/ args[c].schema = None
  \/ args[c].forceJsonMode

IdsOf(models) == [i \in 1..Len(models) |-> models[i].id]

\* C16: a call that skips the structured attempt hands exactly one request
\* to the transport in its whole life: a json_object request for the
\* caller's own primary model with the ids of all the caller's backups as
\* fallbacks; its primary model and backup list are never switched.
C16_SkipSendsOneJsonRequest ==
  \A c \in active :
    SkipsStructured(c) /\ pc[c] # "ChooseMode"
      => /\ primaryModel[c] = args[c].primaryModel
         /\ backupModels[c] = args[c].backupModels
         /\ fetches[c] <= 1
         /\ Len(requests[c]) = IF pc[c] = "JsonModeAttempt" THEN 0 ELSE 1
         /\ \A i \in 1..Len(requests[c]) :
              /\ IsJsonObject(requests[c][i])
              /\ requests[c][i].model = args[c].primaryModel.id
              /\ requests[c][i].models = IdsOf(args[c].backupModels)

\* A call with a schema, a model that supports structured output and two
\* different backups, forced into JSON mode, that has ended after one
\* request listing both backups.
C16_Witness ==
  \E c \in active :
    /\ args[c].forceJsonMode
    /\ args[c].schema # None
    /\ args[c].primaryModel.supportsStructuredOutput
    /\ Len(args[c].backupModels) = 2
    /\ args[c].backupModels[1] # args[c].backupModels[2]
    /\ pc[c] \in Terminal
    /\ Len(requests[c]) = 1
    /\ fetches[c] = 1
    /\ requests[c][1].models = IdsOf(args[c].backupModels)

\* What one request of call c adds to log[c]: the conversion of the schema
\* if the caller gave one, the hand-over to makeOpenrouterCall, and the call
\* of fetch if there is a key.
LogOfOneRequest(c) ==
  (IF args[c].schema = None THEN <<>> ELSE <<"convert">>)
    \o <<"send">>
    \o (IF KeyAbsent THEN <<>> ELSE <<"fetch">>)

Count(what, list) == Cardinality({i \in 1..Len(list) : list[i] = what})

\* C17 as stated: a call with a schema converts it once, and never after a
\* request has gone to the network.  A call that falls back converts the
\* schema a second time, after the structured attempt has come back.
C17_Original_ConvertedOnceBeforeNetwork ==
  \A c \in active :
    args[c].schema # None /\ pc[c] \in Terminal
      => /\ Count("convert", log[c]) = 1
         /\ \A i, j \in 1..Len(log[c]) :
              log[c][i] = "convert" /\ log[c][j] = "fetch" => i < j

\* C17 (amended): a call converts the caller's schema once for each request
\* it builds, directly before handing that request to the transport, and
\* never converts without a schema: once for the structured request and
\* once more, for the hint, for the JSON-mode request.  The first conversion
\* precedes every call of fetch; a call that falls back converts a second
\* time after the structured attempt's call of fetch.
C17_ConvertedOncePerRequest ==
  \A c \in active :
    /\ log[c] = IF Len(requests[c]) = 0 THEN <<>>
                ELSE IF Len(requests[c]) = 1 THEN LogOfOneRequest(c)
                ELSE LogOfOneRequest(c) \o LogOfOneRequest(c)
    /\ Count("convert", log[c]) =
         IF args[c].schema = None THEN 0 ELSE Len(requests[c])
    /\ Len(log[c]) > 0 /\ args[c].schema # None => log[c][1] = "convert"

\* A call that fell back with a key set: the schema was converted, the
\* structured request sent and fetched, then the schema converted again and
\* the JSON-mode request sent and fetched.
C17_Witness ==
  \E c \in active :
    /\ FellBack(c)
    /\ pc[c] \in Terminal
    /\ log[c] = <<"convert", "send", "fetch", "convert", "send", "fetch">>

(***************************************************************************)
(* Claims about calls under way at the same time.                          *)
(***************************************************************************)
\* What makeOpenrouterCall gives for the n-th request of a call that runs
\* alone with this key and these answers of the network.
AloneOutcome(key, got, n) ==
  IF KeyMissing(key) THEN Thrown(ConfigurationError) ELSE HandleResponse(got[n])

\* The JSON-mode attempt of a call that runs alone, as its n-th request.
AloneJsonMode(a, key, got, n, sent, model, backups) ==
  LET r == JsonModeResult(AloneOutcome(key, got, n))
  IN [requests |-> Append(sent,
                     JsonRequestBody(a.systemPrompt,
                                     PromptForJsonMode(a.userPrompt, a.schema),
                                     model, backups, a.routingOptions)),
      ok |-> r.ok,
      value |-> IF r.ok THEN r.value ELSE "",
      error |-> IF r.ok THEN NoError ELSE r.error]

\* makeLLMCall run from start to end on its own: the requests it sends and
\* what it resolves or rejects with, from its arguments, the key and the
\* answers of the network alone.
Alone(a, key, got) ==
  IF UseStructuredOutput(a.primaryModel, a.schema, a.forceJsonMode)
  THEN LET first == StructuredRequestBody(
                      IF a.systemPrompt = None \/ Get(a.systemPrompt) = ""
                      THEN DefaultStructuredSystemPrompt
                      ELSE Get(a.systemPrompt),
                      a.userPrompt, a.primaryModel, a.backupModels,
                      Get(a.schema), a.schemaName, a.routingOptions)
           r == StructuredResult(Get(a.schema), AloneOutcome(key, got, 1))
       IN IF r.ok
          THEN [requests |-> <<first>>, ok |-> TRUE, value |-> r.value,
                error |-> NoError]
          ELSE AloneJsonMode(a, key, got, 2, <<first>>,
                             DemotedPrimary(a.primaryModel, a.backupModels),
                             DemotedBackups(a.backupModels))
  ELSE AloneJsonMode(a, key, got, 1, <<>>, a.primaryModel, a.backupModels)

\* Everything the model keeps for call c.
CallState(c) ==
  <<args[c], pc[c], primaryModel[c], backupModels[c], requests[c],
    received[c], outcomes[c], fetches[c], log[c], result[c], error[c]>>

C18_OutcomeIsOwn ==
  /\ registry = Models
  /\ \A c \in active :
       pc[c] \in Terminal
         => LET alone == Alone(args[c], OPENROUTER_API_KEY, received[c])
            IN /\ requests[c] = alone.requests
               /\ result[c] = alone.value
               /\ error[c] = alone.error
               /\ pc[c] = "JsonFailure" <=> ~alone.ok

C18_StepIsOwn ==
  /\ registry' = registry
  /\ OPENROUTER_API_KEY' = OPENROUTER_API_KEY
  /\ \A c, d \in CallIds :
       CallState(c)' # CallState(c) /\ d # c => CallState(d)' = CallState(d)

\* C18: with two calls under way and their steps interleaved in any order,
\* every step changes the state of one call only and never the Models
\* registry or the key, and each call that has ended has sent the requests
\* and got the result or error that it gets when it runs alone with its own
\* arguments and its own answers from the network.
C18_CallsAreIndependent == []C18_OutcomeIsOwn /\ [][C18_StepIsOwn]_vars

\* Two calls with different backup lists that both have ended: the first
\* fell back to its backup after a failed structured attempt, the second
\* got its structured result at once.
C18_Witness ==
  /\ active = {1, 2}
  /\ args[1].backupModels # args[2].backupModels
  /\ FellBack(1)
  /\ requests[1][2].model = Models.DeepseekR1.id
  /\ pc[1] = "JsonSuccess"
  /\ pc[2] = "StructuredSuccess"
  /\ received[1] # received[2]

(***************************************************************************)
(* Claims about what every request carries.                                *)
(***************************************************************************)
\* The caller's backups from the second one onward.
FromSecond(models) == SubSeq(models, 2, Len(models))

\* C19: the fallback ids of every request are the ids of the backups in
\* force when it is built, in their order: a call's first request, be it
\* the structured one or a direct JSON-mode one, lists all the caller's
\* backups in the caller's order, and the JSON-mode request after a failed
\* structured attempt lists the caller's backups from the second onward,
\* in the caller's order.
C19_FallbackIdsInOrder ==
  \A c \in active :
    /\ Len(requests[c]) >= 1
         => requests[c][1].models = IdsOf(args[c].backupModels)
    /\ Len(requests[c]) >= 2
         => requests[c][2].models = IdsOf(FromSecond(args[c].backupModels))
    /\ pc[c] \in {"StructuredWait", "JsonWait"} \cup Terminal
         => requests[c][Len(requests[c])].models = IdsOf(backupModels[c])

\* A call with three backups that fell back: its structured request listed
\* the three ids and its JSON-mode request the second and the third.
C19_Witness ==
  \E c \in active :
    /\ FellBack(c)
    /\ requests[c][1].models =
         <<Models.DeepseekR1.id, Models.GPT4o.id, Models.GPT35Turbo.id>>
    /\ requests[c][2].model = Models.DeepseekR1.id
    /\ requests[c][2].models = <<Models.GPT4o.id, Models.GPT35Turbo.id>>

\* C20: every request asks for require_parameters, and its response_format
\* is one of two: json_schema with the schema name the call was given (the
\* default "response" when the caller gave none), strict set and the
\* converted schema, which only the structured attempt sends, as the first
\* request of a call that qualifies; or json_object and nothing else, which
\* every other request sends.
C20_ResponseFormatAndRequireParameters ==
  \A c \in active : \A i \in 1..Len(requests[c]) :
    LET rq == requests[c][i]
    IN /\ rq.provider.require_parameters = TRUE
       /\ IF i = 1 /\ ~SkipsStructured(c)
          THEN rq.response_format =
                 [type |-> "json_schema",
                  json_schema |->
                    Some([name |-> args[c].schemaName,
                          strict |-> TRUE,
                          schema |->
                            ZodToJsonSchema(Get(args[c].schema), "default")])]
          ELSE rq.response_format =
                 [type |-> "json_object", json_schema |-> None]

\* A call given the schema name summary that fell back: its first request
\* is the json_schema one under that name, its second the json_object one.
C20_Witness ==
  \E c \in active :
    /\ Len(requests[c]) = 2
    /\ args[c].schemaName = "summary"
    /\ requests[c][1].response_format.type = "json_schema"
    /\ Get(requests[c][1].response_format.json_schema).name = "summary"
    /\ Get(requests[c][1].response_format.json_schema).strict
    /\ requests[c][2].response_format.type = "json_object"
    /\ requests[c][2].provider.require_parameters

(***************************************************************************)
(* Claims about what demotion does to the routing and to the caller.       *)
(***************************************************************************)
\* The caller's override says nothing about this field.
NoOverride(c, field) ==
  args[c].routingOptions = None \/ Get(args[c].routingOptions)[field] = None

\* The first backup's default for this field, None when it has none.
FirstBackupDefault(c, field) ==
  LET df == args[c].backupModels[1].defaultRoutingOptions
  IN IF df = None THEN None ELSE Get(df)[field]

\* A list preference as it is sent: an empty list is left out.
SentList(list) == IF list = Some(<<>>) THEN None ELSE list

\* C21: when a call with at least one backup falls back, its JSON-mode
\* request targets the first backup and its provider preferences come from
\* the caller's override and the first backup's default routing options:
\* a field the override leaves out carries the first backup's default, or is
\* left out when that default is missing or an empty list, whatever the
\* original primary model's defaults are; a field the override gives
\* carries the override's value, an empty list being left out.
C21_DemotedRoutingUsesBackupDefaults ==
  \A c \in active :
    FellBack(c) /\ args[c].backupModels # <<>>
      => LET prefs == requests[c][2].provider
             ov == Get(args[c].routingOptions)
         IN /\ requests[c][2].model = args[c].backupModels[1].id
            /\ prefs.sort =
                 IF NoOverride(c, "providerSort")
                 THEN FirstBackupDefault(c, "providerSort")
                 ELSE ov.providerSort
            /\ prefs.order =
                 IF NoOverride(c, "providerOrder")
                 THEN SentList(FirstBackupDefault(c, "providerOrder"))
                 ELSE SentList(ov.providerOrder)
            /\ prefs.ignore =
                 IF NoOverride(c, "ignoredProviders")
                 THEN SentList(FirstBackupDefault(c, "ignoredProviders"))
                 ELSE SentList(ov.ignoredProviders)

\* A call without override whose primary model defaults to sort by price
\* and to an order and an ignore list of its own, and which fell back to a
\* backup with other defaults: the JSON-mode request carries the backup's
\* sort and order and no ignore list, while the structured request carried
\* the primary model's.
C21_Witness ==
  \E c \in active :
    /\ FellBack(c)
    /\ args[c].routingOptions = None
    /\ args[c].backupModels = <<RoutingBackup>>
    /\ args[c].primaryModel.defaultRoutingOptions =
         Some(RoutingOptions(Some("price"), Some(<<"InferenceNet">>),
                             Some(<<"InferenceNet">>)))
    /\ requests[c][1].provider.sort = Some("price")
    /\ requests[c][1].provider.ignore = Some(<<"InferenceNet">>)
    /\ requests[c][2].provider.sort = Some("throughput")
    /\ requests[c][2].provider.order = Some(<<"Groq">>)
    /\ requests[c][2].provider.ignore = None

\* The call has been through the catch block with a backup to switch to.
Demoted(c) ==
  /\ StructuredSent(c)
  /\ pc[c] \in {"JsonModeAttempt", "JsonWait", "JsonSuccess", "JsonFailure"}
  /\ args[c].backupModels # <<>>

C22_CallerStillHoldsWhatItPassed ==
  /\ registry = Models
  /\ \A c \in active :
       /\ Len(requests[c]) >= 1
            => /\ requests[c][1].model = args[c].primaryModel.id
               /\ requests[c][1].models = IdsOf(args[c].backupModels)
       /\ IF Demoted(c)
          THEN /\ args[c].backupModels = <<primaryModel[c]>> \o backupModels[c]
               /\ Len(backupModels[c]) = Len(args[c].backupModels) - 1
          ELSE /\ args[c].primaryModel = primaryModel[c]
               /\ args[c].backupModels = backupModels[c]

C22_StepKeepsArguments ==
  /\ args' = args
  /\ registry' = registry

\* C22: no step of makeLLMCall changes what the caller passed or the Models
\* registry.  Demotion changes the call's own primaryModel and backupModels
\* only: afterwards the caller's backup list is still the model the call
\* switched to followed by the call's remaining backups, in that order, and
\* the caller's primary model and backup list are still the ones the first
\* request was built from.
C22_ArgumentsUnchanged ==
  []C22_CallerStillHoldsWhatItPassed /\ [][C22_StepKeepsArguments]_vars

\* A call with a routing override and two different backups that fell back
\* and has ended: its own bindings have moved on, the caller's list has not.
C22_Witness ==
  \E c \in active :
    /\ Demoted(c)
    /\ pc[c] \in Terminal
    /\ args[c].routingOptions # None
    /\ Len(args[c].backupModels) = 2
    /\ args[c].backupModels[1] # args[c].backupModels[2]
    /\ primaryModel[c] = args[c].backupModels[1]
    /\ primaryModel[c] # args[c].primaryModel
    /\ backupModels[c] = <<args[c].backupModels[2]>>

====
